---- MODULE Spec2Model ----
(***************************************************************************)
(* XOR linked list (src/src/lib.rs).                                       *)
(*                                                                         *)
(* A node address is a positive integer, the null pointer is 0.  The heap  *)
(* is a function whose domain is the set of allocated (live) addresses;    *)
(* Box::from_raw removes an address from the domain.  Dereferencing NULL   *)
(* or an address that is not allocated is undefined behaviour: the model   *)
(* records it in `fault` and the program stops there, so every claim that  *)
(* speaks about memory safety is a statement that `fault` stays "none".    *)
(***************************************************************************)
EXTENDS Integers, Sequences, FiniteSets, TLC

\* ---------------------------------------------------------------- bounds
\* number of heap cells the allocator can hand out (addresses 1..MaxAddr)
MaxAddr == 5
\* longest input of the push-then-pop round trip
MaxTrip == 3

NULL == 0
NONE == 0
Addrs == 1..MaxAddr
\* The payload type T is generic and the list never inspects a payload.  The
\* caller of the list pushes a payload that names the cell it lands in, so all
\* payloads in a list differ and every position of a sequence can be told from
\* every other; any other choice of payloads is a relabelling of this one.
Tag(node) == 10 + node
Values == {Tag(node) : node \in Addrs}
Indexes == 0..(MaxAddr + 1)

VARIABLES size, start, end, heap, fault, dropped, last, trip, cursor, other

listVars == <<size, start, end, heap>>
vars == <<size, start, end, heap, fault, dropped, last, trip, cursor, other>>

\* ------------------------------------------------------------ link encoding
\* bitwise XOR of two pointer values (usize ^ usize)
RECURSIVE xor_ptrs(_, _)
xor_ptrs(first_ptr, second_ptr) ==
    IF first_ptr = 0 THEN second_ptr
    ELSE IF second_ptr = 0 THEN first_ptr
    ELSE (((first_ptr % 2) + (second_ptr % 2)) % 2)
         + (2 * xor_ptrs(first_ptr \div 2, second_ptr \div 2))

\* a pointer that may be dereferenced: non-null and allocated
Live(h, ptr) == ptr \in DOMAIN h

\* XorNode { payload, xor_ptr: null_mut() } placed at address new_node
allocate(h, new_node, value) ==
    (new_node :> [payload |-> value, xor_ptr |-> NULL]) @@ h

\* Box::from_raw(ptr) dropped: the cell leaves the heap
deallocate(h, ptr) == [a \in (DOMAIN h) \ {ptr} |-> h[a]]

\* the addresses the allocator may return for the next Box::new: any cell
\* that is not in use, a cell freed earlier included
FreeAddrs(h) == Addrs \ DOMAIN h

\* the list as one value, with the outcome of the operation that produced it:
\* ret is the Option<T> returned (NONE for None and for ()), panicked says
\* that the operation unwound, fault names the undefined behaviour it hit
List(sz, s, e, h) ==
    [size |-> sz, start |-> s, end |-> e, heap |-> h,
     fault |-> "none", ret |-> NONE, panicked |-> FALSE]

Returning(L, value) == [L EXCEPT !.ret = value]
Faulted(L, what) == [L EXCEPT !.fault = what, !.ret = NONE]

\* XorLinkedList::len
len(L) == L.size

\* XorLinkedList::new
new == List(0, NULL, NULL, <<>>)

\* ------------------------------------------------------------ push / pop
\* push_end that leaves the new node's link null (line 171 left out)
push_end_unlinked(end_ptr1, end_ptr2, h, new_node, value) ==
    LET h1 == allocate(h, new_node, value) IN
    IF end_ptr2 = NULL
    THEN [e1 |-> new_node, e2 |-> new_node, heap |-> h1, fault |-> "none"]
    ELSE IF ~Live(h1, end_ptr2)
    THEN [e1 |-> end_ptr1, e2 |-> end_ptr2, heap |-> h1, fault |-> "invalid_deref"]
    ELSE [e1 |-> end_ptr1, e2 |-> new_node,
          heap |-> [h1 EXCEPT ![end_ptr2].xor_ptr = xor_ptrs(@, new_node)],
          fault |-> "none"]

push_end(end_ptr1, end_ptr2, h, new_node, value) ==
    LET h1 == allocate(h, new_node, value) IN
    IF end_ptr2 = NULL
    THEN [e1 |-> new_node, e2 |-> new_node, heap |-> h1, fault |-> "none"]
    ELSE IF ~Live(h1, end_ptr2)
    THEN [e1 |-> end_ptr1, e2 |-> end_ptr2, heap |-> h1, fault |-> "invalid_deref"]
    ELSE [e1 |-> end_ptr1, e2 |-> new_node,
          heap |-> [h1 EXCEPT ![end_ptr2].xor_ptr = xor_ptrs(@, new_node),
                              ![new_node].xor_ptr = end_ptr2],
          fault |-> "none"]

push_back(L, new_node, value) ==
    LET r == push_end(L.start, L.end, L.heap, new_node, value) IN
    [List(L.size + 1, r.e1, r.e2, r.heap) EXCEPT !.fault = r.fault]

\* push_front that hands the anchors to push_end in push_back's order
push_front_at_back(L, new_node, value) ==
    LET r == push_end(L.start, L.end, L.heap, new_node, value) IN
    [List(L.size + 1, r.e1, r.e2, r.heap) EXCEPT !.fault = r.fault]

push_front(L, new_node, value) ==
    LET r == push_end(L.end, L.start, L.heap, new_node, value) IN
    [List(L.size + 1, r.e2, r.e1, r.heap) EXCEPT !.fault = r.fault]

\* pop_end that forgets `*size -= 1`
pop_end_keeps_size(sz, end_ptr1, end_ptr2, h) ==
    LET same == [size |-> sz, e1 |-> end_ptr1, e2 |-> end_ptr2, heap |-> h,
                 fault |-> "none", ret |-> NONE]
        old_ptr == end_ptr1
    IN
    IF end_ptr1 = NULL THEN same
    ELSE IF ~Live(h, old_ptr) THEN [same EXCEPT !.fault = "invalid_deref"]
    ELSE
      LET new_end == h[old_ptr].xor_ptr
          single == (end_ptr1 = end_ptr2)
      IN
      IF ~single /\ ~Live(h, new_end) THEN [same EXCEPT !.fault = "invalid_deref"]
      ELSE
        LET h1 == IF single THEN h
                  ELSE [h EXCEPT ![new_end].xor_ptr = xor_ptrs(@, old_ptr)]
        IN [size |-> sz,
            e1 |-> IF single THEN NULL ELSE new_end,
            e2 |-> IF single THEN NULL ELSE end_ptr2,
            heap |-> deallocate(h1, old_ptr),
            fault |-> "none",
            ret |-> h[old_ptr].payload]

\* pop_end without the patch of the new anchor's link (line 211 left out)
pop_end_unpatched(sz, end_ptr1, end_ptr2, h) ==
    LET same == [size |-> sz, e1 |-> end_ptr1, e2 |-> end_ptr2, heap |-> h,
                 fault |-> "none", ret |-> NONE]
        old_ptr == end_ptr1
    IN
    IF end_ptr1 = NULL THEN same
    ELSE IF ~Live(h, old_ptr) THEN [same EXCEPT !.fault = "invalid_deref"]
    ELSE
      LET new_end == h[old_ptr].xor_ptr
          single == (end_ptr1 = end_ptr2)
      IN
      IF ~single /\ ~Live(h, new_end) THEN [same EXCEPT !.fault = "invalid_deref"]
      ELSE IF sz = 0 THEN [same EXCEPT !.fault = "size_underflow"]
      ELSE [size |-> sz - 1,
            e1 |-> IF single THEN NULL ELSE new_end,
            e2 |-> IF single THEN NULL ELSE end_ptr2,
            heap |-> deallocate(h, old_ptr),
            fault |-> "none",
            ret |-> h[old_ptr].payload]

\* pop_end that reads the payload without Box::from_raw: the node stays
\* allocated
pop_end_not_freeing(sz, end_ptr1, end_ptr2, h) ==
    LET same == [size |-> sz, e1 |-> end_ptr1, e2 |-> end_ptr2, heap |-> h,
                 fault |-> "none", ret |-> NONE]
        old_ptr == end_ptr1
    IN
    IF end_ptr1 = NULL THEN same
    ELSE IF ~Live(h, old_ptr) THEN [same EXCEPT !.fault = "invalid_deref"]
    ELSE
      LET new_end == h[old_ptr].xor_ptr
          single == (end_ptr1 = end_ptr2)
      IN
      IF ~single /\ ~Live(h, new_end) THEN [same EXCEPT !.fault = "invalid_deref"]
      ELSE IF sz = 0 THEN [same EXCEPT !.fault = "size_underflow"]
      ELSE
        LET h1 == IF single THEN h
                  ELSE [h EXCEPT ![new_end].xor_ptr = xor_ptrs(@, old_ptr)]
        IN [size |-> sz - 1,
            e1 |-> IF single THEN NULL ELSE new_end,
            e2 |-> IF single THEN NULL ELSE end_ptr2,
            heap |-> h1,
            fault |-> "none",
            ret |-> h[old_ptr].payload]

\* pop_end without the `if end_ptr1.is_null() { return None; }` guard
pop_end_unguarded(sz, end_ptr1, end_ptr2, h) ==
    LET same == [size |-> sz, e1 |-> end_ptr1, e2 |-> end_ptr2, heap |-> h,
                 fault |-> "none", ret |-> NONE]
        old_ptr == end_ptr1
    IN
    IF ~Live(h, old_ptr) THEN [same EXCEPT !.fault = "invalid_deref"]
    ELSE
      LET new_end == h[old_ptr].xor_ptr
          single == (end_ptr1 = end_ptr2)
      IN
      IF ~single /\ ~Live(h, new_end) THEN [same EXCEPT !.fault = "invalid_deref"]
      ELSE IF sz = 0 THEN [same EXCEPT !.fault = "size_underflow"]
      ELSE
        LET h1 == IF single THEN h
                  ELSE [h EXCEPT ![new_end].xor_ptr = xor_ptrs(@, old_ptr)]
        IN [size |-> sz - 1,
            e1 |-> IF single THEN NULL ELSE new_end,
            e2 |-> IF single THEN NULL ELSE end_ptr2,
            heap |-> deallocate(h1, old_ptr),
            fault |-> "none",
            ret |-> h[old_ptr].payload]

pop_end(sz, end_ptr1, end_ptr2, h) ==
    LET same == [size |-> sz, e1 |-> end_ptr1, e2 |-> end_ptr2, heap |-> h,
                 fault |-> "none", ret |-> NONE]
        old_ptr == end_ptr1
    IN
    IF end_ptr1 = NULL THEN same
    ELSE IF ~Live(h, old_ptr) THEN [same EXCEPT !.fault = "invalid_deref"]
    ELSE
      LET new_end == h[old_ptr].xor_ptr
          single == (end_ptr1 = end_ptr2)
      IN
      IF ~single /\ ~Live(h, new_end) THEN [same EXCEPT !.fault = "invalid_deref"]
      ELSE IF sz = 0 THEN [same EXCEPT !.fault = "size_underflow"]
      ELSE
        LET h1 == IF single THEN h
                  ELSE [h EXCEPT ![new_end].xor_ptr = xor_ptrs(@, old_ptr)]
        IN [size |-> sz - 1,
            e1 |-> IF single THEN NULL ELSE new_end,
            e2 |-> IF single THEN NULL ELSE end_ptr2,
            heap |-> deallocate(h1, old_ptr),
            fault |-> "none",
            ret |-> h[old_ptr].payload]

pop_front(L) ==
    LET r == pop_end(L.size, L.start, L.end, L.heap) IN
    [List(r.size, r.e1, r.e2, r.heap) EXCEPT !.fault = r.fault, !.ret = r.ret]

pop_back(L) ==
    LET r == pop_end(L.size, L.end, L.start, L.heap) IN
    [List(r.size, r.e2, r.e1, r.heap) EXCEPT !.fault = r.fault, !.ret = r.ret]

\* ------------------------------------------------------------ locate by index
\* the decode loop `while jump_count > 0` shared by the two locate functions
RECURSIVE walk(_, _, _, _)
walk(h, current_ptr, prev_ptr, jump_count) ==
    IF jump_count < 0
    THEN [current |-> current_ptr, prev |-> prev_ptr, fault |-> "size_underflow",
          decodes |-> 0]
    ELSE IF jump_count = 0
    THEN [current |-> current_ptr, prev |-> prev_ptr, fault |-> "none",
          decodes |-> 0]
    ELSE IF ~Live(h, current_ptr)
    THEN [current |-> current_ptr, prev |-> prev_ptr, fault |-> "invalid_deref",
          decodes |-> 0]
    ELSE LET rest == walk(h, xor_ptrs(h[current_ptr].xor_ptr, prev_ptr),
                          current_ptr, jump_count - 1)
         IN [rest EXCEPT !.decodes = @ + 1]

\* get_ptr_at that walks size - index links from the back (one too many)
get_ptr_at_off_by_one(L, index) ==
    IF index > L.size \div 2
    THEN walk(L.heap, L.end, NULL, L.size - index)
    ELSE walk(L.heap, L.start, NULL, index)

\* get_ptr_at that always walks from the front
get_ptr_at_from_start(L, index) == walk(L.heap, L.start, NULL, index)

\* get_ptr_at whose test is inverted: it starts at the farther end
get_ptr_at_far_end(L, index) ==
    IF index > L.size \div 2
    THEN walk(L.heap, L.start, NULL, index)
    ELSE walk(L.heap, L.end, NULL, L.size - index - 1)

get_ptr_at(L, index) ==
    IF index > L.size \div 2
    THEN walk(L.heap, L.end, NULL, L.size - index - 1)
    ELSE walk(L.heap, L.start, NULL, index)

\* get whose bounds test is `index > self.size`
get_inclusive(L, index) ==
    IF index > L.size THEN [ret |-> NONE, fault |-> "none", decodes |-> 0]
    ELSE LET w == get_ptr_at(L, index) IN
         IF w.fault # "none"
         THEN [ret |-> NONE, fault |-> w.fault, decodes |-> w.decodes]
         ELSE IF ~Live(L.heap, w.current)
         THEN [ret |-> NONE, fault |-> "invalid_deref", decodes |-> w.decodes]
         ELSE [ret |-> L.heap[w.current].payload, fault |-> "none",
               decodes |-> w.decodes]

get(L, index) ==
    IF index >= L.size THEN [ret |-> NONE, fault |-> "none", decodes |-> 0]
    ELSE LET w == get_ptr_at(L, index) IN
         IF w.fault # "none"
         THEN [ret |-> NONE, fault |-> w.fault, decodes |-> w.decodes]
         ELSE IF ~Live(L.heap, w.current)
         THEN [ret |-> NONE, fault |-> "invalid_deref", decodes |-> w.decodes]
         ELSE [ret |-> L.heap[w.current].payload, fault |-> "none",
               decodes |-> w.decodes]

\* XorLinkedList::get_mut: the same walk, the reference is a mutable one
get_mut(L, index) ==
    IF index >= L.size THEN [ret |-> NONE, fault |-> "none", decodes |-> 0]
    ELSE LET w == get_ptr_at(L, index) IN
         IF w.fault # "none"
         THEN [ret |-> NONE, fault |-> w.fault, decodes |-> w.decodes]
         ELSE IF ~Live(L.heap, w.current)
         THEN [ret |-> NONE, fault |-> "invalid_deref", decodes |-> w.decodes]
         ELSE [ret |-> L.heap[w.current].payload, fault |-> "none",
               decodes |-> w.decodes]

\* Option::expect(INDEX_BOUNDS_ERROR): panics on None
expect(g) ==
    [ret |-> g.ret, fault |-> g.fault,
     panicked |-> (g.fault = "none" /\ g.ret = NONE)]

\* Index::index, the read list[index]
Index_index(L, i) == expect(get(L, i))

\* IndexMut::index_mut, the place list[index] of a write
index_mut(L, i) == expect(get_mut(L, i))

\* a debug build panics on a failing debug_assert!, a release build does
\* not evaluate it: debug_panic tells whether one of the two fails
peek_empty(L) ==
    [ret |-> NONE, fault |-> "none",
     debug_panic |-> (L.start # NULL \/ L.end # NULL)]

peek_front(L) ==
    IF L.size = 0 THEN peek_empty(L)
    ELSE IF ~Live(L.heap, L.start)
    THEN [ret |-> NONE, fault |-> "invalid_deref", debug_panic |-> FALSE]
    ELSE [ret |-> L.heap[L.start].payload, fault |-> "none", debug_panic |-> FALSE]

peek_front_mut(L) ==
    IF L.size = 0 THEN peek_empty(L)
    ELSE IF ~Live(L.heap, L.start)
    THEN [ret |-> NONE, fault |-> "invalid_deref", debug_panic |-> FALSE]
    ELSE [ret |-> L.heap[L.start].payload, fault |-> "none", debug_panic |-> FALSE]

\* peek_back that reads the node of the front anchor
peek_back_at_start(L) == peek_front(L)

peek_back(L) ==
    IF L.size = 0 THEN peek_empty(L)
    ELSE IF ~Live(L.heap, L.end)
    THEN [ret |-> NONE, fault |-> "invalid_deref", debug_panic |-> FALSE]
    ELSE [ret |-> L.heap[L.end].payload, fault |-> "none", debug_panic |-> FALSE]

peek_back_mut(L) ==
    IF L.size = 0 THEN peek_empty(L)
    ELSE IF ~Live(L.heap, L.end)
    THEN [ret |-> NONE, fault |-> "invalid_deref", debug_panic |-> FALSE]
    ELSE [ret |-> L.heap[L.end].payload, fault |-> "none", debug_panic |-> FALSE]

\* get_ptr_at_and_prev that walks one link too few from the back
get_ptr_at_and_prev_short(L, index) ==
    LET is_backwards_iteration == index > L.size \div 2
        w == IF is_backwards_iteration
             THEN walk(L.heap, L.end, NULL, L.size - index - 1)
             ELSE walk(L.heap, L.start, NULL, index)
    IN IF is_backwards_iteration
       THEN [current |-> w.prev, prev |-> w.current, fault |-> w.fault,
             decodes |-> w.decodes]
       ELSE w

\* get_ptr_at_and_prev without the swap after a walk from the back
get_ptr_at_and_prev_unswapped(L, index) ==
    IF index > L.size \div 2
    THEN walk(L.heap, L.end, NULL, L.size - index)
    ELSE walk(L.heap, L.start, NULL, index)

\* get_ptr_at_and_prev that swaps after a walk from the front as well
get_ptr_at_and_prev_swapping(L, index) ==
    LET w == IF index > L.size \div 2
             THEN walk(L.heap, L.end, NULL, L.size - index)
             ELSE walk(L.heap, L.start, NULL, index)
    IN [current |-> w.prev, prev |-> w.current, fault |-> w.fault,
        decodes |-> w.decodes]

get_ptr_at_and_prev(L, index) ==
    LET is_backwards_iteration == index > L.size \div 2
        w == IF is_backwards_iteration
             THEN walk(L.heap, L.end, NULL, L.size - index)
             ELSE walk(L.heap, L.start, NULL, index)
    IN IF is_backwards_iteration
       THEN [current |-> w.prev, prev |-> w.current, fault |-> w.fault,
             decodes |-> w.decodes]
       ELSE w

\* ------------------------------------------------------------ insert / remove
\* insert_at without the assert!(index <= self.size)
insert_at_unchecked(L, index, new_node, value) ==
    IF index = 0 THEN push_front(L, new_node, value)
    ELSE IF index = L.size THEN push_back(L, new_node, value)
    ELSE
      LET w == get_ptr_at_and_prev(L, index) IN
      IF w.fault # "none" THEN Faulted(L, w.fault)
      ELSE Faulted(L, "invalid_deref")

insert_at(L, index, new_node, value) ==
    IF index > L.size THEN [L EXCEPT !.panicked = TRUE, !.ret = NONE]
    ELSE IF index = 0 THEN push_front(L, new_node, value)
    ELSE IF index = L.size THEN push_back(L, new_node, value)
    ELSE
      LET w == get_ptr_at_and_prev(L, index)
          current_ptr == w.current
          prev_ptr == w.prev
          h == L.heap
      IN
      IF w.fault # "none" THEN Faulted(L, w.fault)
      ELSE IF ~Live(h, current_ptr) \/ ~Live(h, prev_ptr)
      THEN Faulted(L, "invalid_deref")
      ELSE
        LET h1 == [h EXCEPT ![current_ptr].xor_ptr = xor_ptrs(@, prev_ptr)]
            h2 == [h1 EXCEPT ![prev_ptr].xor_ptr = xor_ptrs(@, current_ptr)]
            h3 == [allocate(h2, new_node, value)
                     EXCEPT ![new_node].xor_ptr = xor_ptrs(current_ptr, prev_ptr)]
            h4 == [h3 EXCEPT ![current_ptr].xor_ptr = xor_ptrs(@, new_node)]
            h5 == [h4 EXCEPT ![prev_ptr].xor_ptr = xor_ptrs(@, new_node)]
        IN List(L.size + 1, L.start, L.end, h5)

\* remove_at that forgets `self.size -= 1` after an interior splice
remove_at_keeps_size(L, index) ==
    IF index >= L.size THEN Returning(L, NONE)
    ELSE IF index = 0 THEN pop_front(L)
    ELSE IF index + 1 = L.size THEN pop_back(L)
    ELSE
      LET w == get_ptr_at_and_prev(L, index)
          current_ptr == w.current
          prev_ptr == w.prev
          h == L.heap
      IN
      IF w.fault # "none" THEN Faulted(L, w.fault)
      ELSE IF ~Live(h, current_ptr) THEN Faulted(L, "invalid_deref")
      ELSE
        LET next_ptr == xor_ptrs(h[current_ptr].xor_ptr, prev_ptr) IN
        IF ~Live(h, next_ptr) \/ ~Live(h, prev_ptr)
        THEN Faulted(L, "invalid_deref")
        ELSE
          LET h1 == [h EXCEPT ![next_ptr].xor_ptr = xor_ptrs(@, current_ptr)]
              h2 == [h1 EXCEPT ![prev_ptr].xor_ptr = xor_ptrs(@, current_ptr)]
              h3 == [h2 EXCEPT ![next_ptr].xor_ptr = xor_ptrs(@, prev_ptr)]
              h4 == [h3 EXCEPT ![prev_ptr].xor_ptr = xor_ptrs(@, next_ptr)]
          IN Returning(List(L.size, L.start, L.end, deallocate(h4, current_ptr)),
                       h[current_ptr].payload)

remove_at(L, index) ==
    IF index >= L.size THEN Returning(L, NONE)
    ELSE IF index = 0 THEN pop_front(L)
    ELSE IF index + 1 = L.size THEN pop_back(L)
    ELSE
      LET w == get_ptr_at_and_prev(L, index)
          current_ptr == w.current
          prev_ptr == w.prev
          h == L.heap
      IN
      IF w.fault # "none" THEN Faulted(L, w.fault)
      ELSE IF ~Live(h, current_ptr) THEN Faulted(L, "invalid_deref")
      ELSE
        LET next_ptr == xor_ptrs(h[current_ptr].xor_ptr, prev_ptr) IN
        IF ~Live(h, next_ptr) \/ ~Live(h, prev_ptr)
        THEN Faulted(L, "invalid_deref")
        ELSE
          LET h1 == [h EXCEPT ![next_ptr].xor_ptr = xor_ptrs(@, current_ptr)]
              h2 == [h1 EXCEPT ![prev_ptr].xor_ptr = xor_ptrs(@, current_ptr)]
              h3 == [h2 EXCEPT ![next_ptr].xor_ptr = xor_ptrs(@, prev_ptr)]
              h4 == [h3 EXCEPT ![prev_ptr].xor_ptr = xor_ptrs(@, next_ptr)]
          IN Returning(List(L.size - 1, L.start, L.end, deallocate(h4, current_ptr)),
                       h[current_ptr].payload)

\* ------------------------------------------------------------ reverse / clear
\* a swap written as two assignments: start = end; end = start
reverse_overwriting(L) == List(L.size, L.end, L.end, L.heap)

\* reverse that swaps nothing
reverse_nothing(L) == List(L.size, L.start, L.end, L.heap)

reverse(L) == List(L.size, L.end, L.start, L.heap)

\* a clear that resets the anchors and the size without popping the nodes
clear_loop_leaking(L, pops) ==
    [list |-> List(0, NULL, NULL, L.heap), pops |-> L.size]

\* a clear with `if` in place of `loop`: one pop_front
clear_loop_single(L, pops) ==
    LET r == pop_front(L) IN
    [list |-> r, pops |-> IF r.fault = "none" /\ r.ret # NONE THEN pops + 1 ELSE pops]

\* loop { if self.pop_front().is_none() { return } }; pops counts the
\* iterations that returned Some
RECURSIVE clear_loop(_, _)
clear_loop(L, pops) ==
    LET r == pop_front(L) IN
    IF r.fault # "none" THEN [list |-> r, pops |-> pops]
    ELSE IF r.ret = NONE THEN [list |-> r, pops |-> pops]
    ELSE clear_loop(r, pops + 1)

clear(L) == clear_loop(L, 0).list

\* ------------------------------------------------------------ cursors
\* a next() that turns the cursor round when it finds current_ptr null
iter_next_turning(h, current_ptr, prev_ptr) ==
    IF current_ptr = NULL
    THEN [item |-> NONE, node |-> NULL, current |-> prev_ptr, prev |-> NULL,
          fault |-> "none", heap |-> h]
    ELSE IF ~Live(h, current_ptr)
    THEN [item |-> NONE, node |-> NULL, current |-> current_ptr, prev |-> prev_ptr,
          fault |-> "invalid_deref", heap |-> h]
    ELSE [item |-> h[current_ptr].payload, node |-> current_ptr,
          current |-> xor_ptrs(h[current_ptr].xor_ptr, prev_ptr),
          prev |-> current_ptr, fault |-> "none", heap |-> h]

\* a next() that forgets `self.prev_ptr = self.current_ptr`
iter_next_stale_prev(h, current_ptr, prev_ptr) ==
    IF current_ptr = NULL
    THEN [item |-> NONE, node |-> NULL, current |-> current_ptr, prev |-> prev_ptr,
          fault |-> "none", heap |-> h]
    ELSE IF ~Live(h, current_ptr)
    THEN [item |-> NONE, node |-> NULL, current |-> current_ptr, prev |-> prev_ptr,
          fault |-> "invalid_deref", heap |-> h]
    ELSE [item |-> h[current_ptr].payload, node |-> current_ptr,
          current |-> xor_ptrs(h[current_ptr].xor_ptr, prev_ptr),
          prev |-> prev_ptr, fault |-> "none", heap |-> h]

\* a next() that stores the decoded address in the node it leaves
iter_next_relinking(h, current_ptr, prev_ptr) ==
    IF current_ptr = NULL
    THEN [item |-> NONE, node |-> NULL, current |-> current_ptr, prev |-> prev_ptr,
          fault |-> "none", heap |-> h]
    ELSE IF ~Live(h, current_ptr)
    THEN [item |-> NONE, node |-> NULL, current |-> current_ptr, prev |-> prev_ptr,
          fault |-> "invalid_deref", heap |-> h]
    ELSE [item |-> h[current_ptr].payload, node |-> current_ptr,
          current |-> xor_ptrs(h[current_ptr].xor_ptr, prev_ptr),
          prev |-> current_ptr, fault |-> "none",
          heap |-> [h EXCEPT ![current_ptr].xor_ptr =
                                xor_ptrs(h[current_ptr].xor_ptr, prev_ptr)]]

\* RefXorLinkedListIter: one call of next() on the cursor
\* (current_ptr, prev_ptr); item is NONE when next() returns None, and heap
\* is the heap after the call: next() writes to no node
iter_next(h, current_ptr, prev_ptr) ==
    IF current_ptr = NULL
    THEN [item |-> NONE, node |-> NULL, current |-> current_ptr, prev |-> prev_ptr,
          fault |-> "none", heap |-> h]
    ELSE IF ~Live(h, current_ptr)
    THEN [item |-> NONE, node |-> NULL, current |-> current_ptr, prev |-> prev_ptr,
          fault |-> "invalid_deref", heap |-> h]
    ELSE [item |-> h[current_ptr].payload, node |-> current_ptr,
          current |-> xor_ptrs(h[current_ptr].xor_ptr, prev_ptr),
          prev |-> current_ptr, fault |-> "none", heap |-> h]

\* MutRefXorLinkedListIter::next: the same step, the reference handed out
\* is a mutable one
iter_mut_next(h, current_ptr, prev_ptr) ==
    IF current_ptr = NULL
    THEN [item |-> NONE, node |-> NULL, current |-> current_ptr, prev |-> prev_ptr,
          fault |-> "none", heap |-> h]
    ELSE IF ~Live(h, current_ptr)
    THEN [item |-> NONE, node |-> NULL, current |-> current_ptr, prev |-> prev_ptr,
          fault |-> "invalid_deref", heap |-> h]
    ELSE [item |-> h[current_ptr].payload, node |-> current_ptr,
          current |-> xor_ptrs(h[current_ptr].xor_ptr, prev_ptr),
          prev |-> current_ptr, fault |-> "none", heap |-> h]

\* a `for` loop over a borrowing cursor: the payloads and the nodes it yields.
\* A cursor on a chain with a cycle never returns None; the loop is cut after
\* `fuel` items and reported as "endless".
RECURSIVE iter_collect(_, _, _, _, _, _)
iter_collect(h, current_ptr, prev_ptr, items, nodes, fuel) ==
    LET n == iter_next(h, current_ptr, prev_ptr) IN
    IF n.fault # "none" THEN [items |-> items, nodes |-> nodes, stop |-> n.fault]
    ELSE IF n.item = NONE THEN [items |-> items, nodes |-> nodes, stop |-> "done"]
    ELSE IF fuel = 0 THEN [items |-> items, nodes |-> nodes, stop |-> "endless"]
    ELSE iter_collect(h, n.current, n.prev, Append(items, n.item),
                      Append(nodes, n.node), fuel - 1)

\* (&list).into_iter(): cursor at start, prev null
iter(L) == iter_collect(L.heap, L.start, NULL, <<>>, <<>>, MaxAddr + 1)

\* list.reverse_iter(): cursor at end, prev null
reverse_iter(L) == iter_collect(L.heap, L.end, NULL, <<>>, <<>>, MaxAddr + 1)

\* XorLinkedListIter: list.into_iter().collect(), next() is pop_front
RECURSIVE into_iter_collect(_, _)
into_iter_collect(L, items) ==
    LET r == pop_front(L) IN
    IF r.fault # "none" THEN [items |-> items, list |-> r, stop |-> r.fault]
    ELSE IF r.ret = NONE THEN [items |-> items, list |-> r, stop |-> "done"]
    ELSE into_iter_collect(r, Append(items, r.ret))

\* into_reverse_iter that hands out the forward cursor
RECURSIVE into_reverse_iter_forward(_, _)
into_reverse_iter_forward(L, items) ==
    LET r == pop_front(L) IN
    IF r.fault # "none" THEN [items |-> items, list |-> r, stop |-> r.fault]
    ELSE IF r.ret = NONE THEN [items |-> items, list |-> r, stop |-> "done"]
    ELSE into_reverse_iter_forward(r, Append(items, r.ret))

\* ReverseXorLinkedListIter: list.into_reverse_iter().collect(), next() is
\* pop_back
RECURSIVE into_reverse_iter_collect(_, _)
into_reverse_iter_collect(L, items) ==
    LET r == pop_back(L) IN
    IF r.fault # "none" THEN [items |-> items, list |-> r, stop |-> r.fault]
    ELSE IF r.ret = NONE THEN [items |-> items, list |-> r, stop |-> "done"]
    ELSE into_reverse_iter_collect(r, Append(items, r.ret))

\* extend that puts each element at the front
RECURSIVE extend_at_front(_, _, _)
extend_at_front(L, source, nodes) ==
    IF source = <<>> THEN L
    ELSE LET r == push_front(L, Head(nodes), Head(source)) IN
         IF r.fault # "none" THEN r
         ELSE extend_at_front(r, Tail(source), Tail(nodes))

\* Extend::extend: push_back of each element of the source, in its order;
\* `nodes` are the cells the allocator returns for them
RECURSIVE extend(_, _, _)
extend(L, source, nodes) ==
    IF source = <<>> THEN L
    ELSE LET r == push_back(L, Head(nodes), Head(source)) IN
         IF r.fault # "none" THEN r
         ELSE extend(r, Tail(source), Tail(nodes))

\* the `for element in iter { list.push_back(element) }` of from_iter
RECURSIVE from_iter_loop(_, _, _)
from_iter_loop(list, source, nodes) ==
    IF source = <<>> THEN list
    ELSE LET r == push_back(list, Head(nodes), Head(source)) IN
         IF r.fault # "none" THEN r
         ELSE from_iter_loop(r, Tail(source), Tail(nodes))

\* FromIterator::from_iter: a new list, then push_back of each element
from_iter(source, nodes) == from_iter_loop(new, source, nodes)

\* self.iter().zip(other.iter()).all(|(a, b)| a == b): zip asks the first
\* cursor, then the second, and ends when either returns None; all ends
\* with false at the first pair that differs
RECURSIVE zip_all(_, _, _, _, _, _)
zip_all(h, current_ptr1, prev_ptr1, current_ptr2, prev_ptr2, fuel) ==
    LET a == iter_next(h, current_ptr1, prev_ptr1) IN
    IF a.fault # "none" THEN [ret |-> FALSE, fault |-> a.fault]
    ELSE IF a.item = NONE THEN [ret |-> TRUE, fault |-> "none"]
    ELSE
      LET b == iter_next(h, current_ptr2, prev_ptr2) IN
      IF b.fault # "none" THEN [ret |-> FALSE, fault |-> b.fault]
      ELSE IF b.item = NONE THEN [ret |-> TRUE, fault |-> "none"]
      ELSE IF a.item # b.item THEN [ret |-> FALSE, fault |-> "none"]
      ELSE IF fuel = 0 THEN [ret |-> FALSE, fault |-> "endless"]
      ELSE zip_all(h, a.current, a.prev, b.current, b.prev, fuel - 1)

\* eq without `self.len() == other.len() &&`
eq_zip_only(L1, L2) == zip_all(L1.heap, L1.start, NULL, L2.start, NULL, MaxAddr + 1)

\* PartialEq::eq of two lists in the same address space
eq(L1, L2) ==
    IF len(L1) # len(L2) THEN [ret |-> FALSE, fault |-> "none"]
    ELSE zip_all(L1.heap, L1.start, NULL, L2.start, NULL, MaxAddr + 1)

\* list[index] = value: IndexMut::index_mut, then the store through the
\* reference it returns
index_mut_store(L, i, value) ==
    IF i >= L.size THEN [L EXCEPT !.panicked = TRUE]
    ELSE LET w == get_ptr_at(L, i) IN
         IF w.fault # "none" THEN Faulted(L, w.fault)
         ELSE IF ~Live(L.heap, w.current) THEN Faulted(L, "invalid_deref")
         ELSE [L EXCEPT !.heap[w.current].payload = value]

\* ------------------------------------------------------------ state machine
\* the list the program holds
Cur == List(size, start, end, heap)

NoTrip == [mode |-> "off", input |-> <<>>, pushed |-> 0, output |-> <<>>]

\* no cursor exists: the list is neither borrowed nor owned by an iterator
NoCursor == [kind |-> "none", current |-> NULL, prev |-> NULL, nones |-> 0,
             nodes |-> <<>>, origin |-> List(0, NULL, NULL, <<>>)]

\* the program holds no second list
NoOther == [size |-> 0, start |-> NULL, end |-> NULL]

\* `last` is the call the program has just made, with its arguments and its
\* result, until the caller lets go of the result (Idle: no call pending)
Idle == [op |-> "idle", index |-> 0, value |-> NONE, ret |-> NONE,
         panicked |-> FALSE, steps |-> 0, seq |-> <<>>]

Init ==
    /\ size = new.size
    /\ start = new.start
    /\ end = new.end
    /\ heap = new.heap
    /\ fault = "none"
    /\ dropped = FALSE
    /\ last = Idle
    /\ trip = NoTrip
    /\ cursor = NoCursor
    /\ other = NoOther

\* the program makes its next call as long as it has not hit undefined
\* behaviour, the list has not been dropped and no result is pending
Running == fault = "none" /\ ~dropped /\ last = Idle

\* the list becomes R; `last` remembers the call and what it returned
Commit(R, op, index, value, steps) ==
    /\ size' = R.size
    /\ start' = R.start
    /\ end' = R.end
    /\ heap' = R.heap
    /\ fault' = R.fault
    /\ last' = [op |-> op, index |-> index, value |-> value, ret |-> R.ret,
                panicked |-> R.panicked, steps |-> steps, seq |-> <<>>]

\* a call that takes or gives a whole sequence of values, kept in last.seq
CommitSeq(R, op, seq) ==
    /\ size' = R.size
    /\ start' = R.start
    /\ end' = R.end
    /\ heap' = R.heap
    /\ fault' = R.fault
    /\ last' = [op |-> op, index |-> 0, value |-> NONE, ret |-> R.ret,
                panicked |-> R.panicked, steps |-> Len(seq), seq |-> seq]

\* how a call behaves on an index beyond the list depends only on the index
\* being beyond it: one such index past `size` is tried
InRange(index) == index <= size + 1

PushFront(value) ==
    /\ Running
    /\ \E new_node \in FreeAddrs(heap) :
          /\ value = Tag(new_node)
          /\ Commit(push_front(Cur, new_node, value), "push_front", 0, value, 0)
    /\ UNCHANGED <<dropped, trip, cursor, other>>

PushBack(value) ==
    /\ Running
    /\ \E new_node \in FreeAddrs(heap) :
          /\ value = Tag(new_node)
          /\ Commit(push_back(Cur, new_node, value), "push_back", 0, value, 0)
    /\ UNCHANGED <<dropped, trip, cursor, other>>

PopFront ==
    /\ Running
    /\ Commit(pop_front(Cur), "pop_front", 0, NONE, 0)
    /\ UNCHANGED <<dropped, trip, cursor, other>>

PopBack ==
    /\ Running
    /\ Commit(pop_back(Cur), "pop_back", 0, NONE, 0)
    /\ UNCHANGED <<dropped, trip, cursor, other>>

\* the assert! fires before the node is allocated, so a panicking call is
\* possible with the heap full as well
InsertAt(index, value) ==
    /\ Running
    /\ InRange(index)
    /\ IF index > size
       THEN Commit(insert_at(Cur, index, NULL, value), "insert_at", index, value, 0)
       ELSE \E new_node \in FreeAddrs(heap) :
              /\ value = Tag(new_node)
              /\ Commit(insert_at(Cur, index, new_node, value), "insert_at", index,
                        value, 0)
    /\ UNCHANGED <<dropped, trip, cursor, other>>

\* list.insert_at(index, value) immediately followed by list.remove_at(index)
InsertRemove(index, value) ==
    /\ Running
    /\ index <= size
    /\ \E new_node \in FreeAddrs(heap) :
          /\ value = Tag(new_node)
          /\ LET inserted == insert_at(Cur, index, new_node, value)
                 removed == IF inserted.fault # "none" THEN inserted
                            ELSE remove_at(inserted, index)
             IN Commit(removed, "insert_at;remove_at", index, value, 0)
    /\ UNCHANGED <<dropped, trip, cursor, other>>

RemoveAt(index) ==
    /\ Running
    /\ InRange(index)
    /\ Commit(remove_at(Cur, index), "remove_at", index, NONE, 0)
    /\ UNCHANGED <<dropped, trip, cursor, other>>

Reverse ==
    /\ Running
    /\ Commit(reverse(Cur), "reverse", 0, NONE, 0)
    /\ UNCHANGED <<dropped, trip, cursor, other>>

Get(index) ==
    /\ Running
    /\ InRange(index)
    /\ LET g == get(Cur, index) IN
       Commit([Cur EXCEPT !.ret = g.ret, !.fault = g.fault], "get", index, NONE,
              g.decodes)
    /\ UNCHANGED <<dropped, trip, cursor, other>>

\* a call that only reads: the list is as before, the outcome is recorded
Query(q, panicked, op, i) ==
    Commit([Cur EXCEPT !.ret = q.ret, !.fault = q.fault, !.panicked = panicked],
           op, i, NONE, 0)

GetMut(i) ==
    /\ Running
    /\ InRange(i)
    /\ LET g == get_mut(Cur, i) IN
       Commit([Cur EXCEPT !.ret = g.ret, !.fault = g.fault], "get_mut", i, NONE,
              g.decodes)
    /\ UNCHANGED <<dropped, trip, cursor, other>>

Index(i) ==
    /\ Running
    /\ InRange(i)
    /\ LET q == Index_index(Cur, i) IN Query(q, q.panicked, "index", i)
    /\ UNCHANGED <<dropped, trip, cursor, other>>

IndexMut(i) ==
    /\ Running
    /\ InRange(i)
    /\ LET q == index_mut(Cur, i) IN Query(q, q.panicked, "index_mut", i)
    /\ UNCHANGED <<dropped, trip, cursor, other>>

PeekFront ==
    /\ Running
    /\ LET q == peek_front(Cur) IN Query(q, q.debug_panic, "peek_front", 0)
    /\ UNCHANGED <<dropped, trip, cursor, other>>

PeekFrontMut ==
    /\ Running
    /\ LET q == peek_front_mut(Cur) IN Query(q, q.debug_panic, "peek_front_mut", 0)
    /\ UNCHANGED <<dropped, trip, cursor, other>>

PeekBack ==
    /\ Running
    /\ LET q == peek_back(Cur) IN Query(q, q.debug_panic, "peek_back", 0)
    /\ UNCHANGED <<dropped, trip, cursor, other>>

PeekBackMut ==
    /\ Running
    /\ LET q == peek_back_mut(Cur) IN Query(q, q.debug_panic, "peek_back_mut", 0)
    /\ UNCHANGED <<dropped, trip, cursor, other>>

Clear ==
    /\ Running
    /\ LET c == clear_loop(Cur, 0) IN
       Commit(Returning(c.list, NONE), "clear", 0, NONE, c.pops)
    /\ UNCHANGED <<dropped, trip, cursor, other>>

\* impl Drop: self.clear(), after which the list is gone
Drop ==
    /\ Running
    /\ LET c == clear_loop(Cur, 0) IN
       Commit(Returning(c.list, NONE), "drop", 0, NONE, c.pops)
    /\ dropped' = TRUE
    /\ UNCHANGED <<trip, cursor, other>>

\* list.into_iter().collect(): the consuming cursor is stepped until next()
\* returns None and then dropped with the list inside it
IntoIterCollect ==
    /\ Running
    /\ LET d == into_iter_collect(Cur, <<>>) IN
       CommitSeq(Returning(clear(d.list), NONE), "into_iter", d.items)
    /\ dropped' = TRUE
    /\ UNCHANGED <<trip, cursor, other>>

\* list.into_reverse_iter().collect(): the same with the backward cursor
IntoReverseIterCollect ==
    /\ Running
    /\ LET d == into_reverse_iter_collect(Cur, <<>>) IN
       CommitSeq(Returning(clear(d.list), NONE), "into_reverse_iter", d.items)
    /\ dropped' = TRUE
    /\ UNCHANGED <<trip, cursor, other>>

\* the cells the allocator hands out for a source of k values: any k
\* different free ones
Allocations(h, k) ==
    {nodes \in [1..k -> FreeAddrs(h)] :
        \A i, j \in 1..k : nodes[i] = nodes[j] => i = j}

\* the payloads that go into the cells `nodes`
Tags(nodes) == [k \in 1..Len(nodes) |-> Tag(nodes[k])]

\* list.extend(source), the source being any iterator of at most MaxTrip
\* values, the empty one included
Extend ==
    /\ Running
    /\ \E k \in 0..MaxTrip : \E nodes \in Allocations(heap, k) :
          CommitSeq(extend(Cur, Tags(nodes), nodes), "extend", Tags(nodes))
    /\ UNCHANGED <<dropped, trip, cursor, other>>

\* list = XorLinkedList::from_iter(source), in place of the empty list the
\* program holds
FromIter ==
    /\ Running
    /\ Cur = new
    /\ \E k \in 0..MaxTrip : \E nodes \in Allocations(heap, k) :
          CommitSeq(from_iter(Tags(nodes), nodes), "from_iter", Tags(nodes))
    /\ UNCHANGED <<dropped, trip, cursor, other>>

\* the caller drops the Option<T> the last call returned
Discard ==
    /\ fault = "none"
    /\ ~dropped
    /\ last # Idle
    /\ last' = Idle
    /\ UNCHANGED <<size, start, end, heap, fault, dropped, trip, cursor, other>>

Next ==
    \/ \E value \in Values : PushFront(value)
    \/ \E value \in Values : PushBack(value)
    \/ PopFront
    \/ PopBack
    \/ \E index \in Indexes, value \in Values : InsertAt(index, value)
    \/ \E index \in Indexes, value \in Values : InsertRemove(index, value)
    \/ \E index \in Indexes : RemoveAt(index)
    \/ Reverse
    \/ \E index \in Indexes : Get(index)
    \/ \E index \in Indexes : GetMut(index)
    \/ \E index \in Indexes : Index(index)
    \/ \E index \in Indexes : IndexMut(index)
    \/ PeekFront
    \/ PeekFrontMut
    \/ PeekBack
    \/ PeekBackMut
    \/ IntoIterCollect
    \/ IntoReverseIterCollect
    \/ Extend
    \/ FromIter
    \/ Clear
    \/ Drop
    \/ Discard

Spec == Init /\ [][Next]_vars

\* ------------------------------------------------------------ cursors
\* A caller that builds a list, takes one cursor over it and steps the
\* cursor by hand, also after it has returned None. A borrowing cursor
\* holds the list borrowed until it is dropped, so the list is not
\* changed meanwhile; a consuming cursor owns the list.
\* cursor.current and cursor.prev are the fields of the cursor; cursor.nones
\* counts (up to 2) the next() calls that returned None, cursor.nodes lists
\* the nodes the cursor has yielded and cursor.origin is the list as it was
\* when the cursor was created.
RefKinds == {"iter", "reverse_iter"}
MutKinds == {"iter_mut", "reverse_iter_mut"}
BorrowKinds == RefKinds \cup MutKinds
ConsumeKinds == {"into_iter", "into_reverse_iter"}
ForwardKinds == {"iter", "iter_mut", "into_iter"}

\* the cursor the constructor of each kind returns
StartCursor(L, kind) ==
    [kind |-> kind,
     current |-> IF kind \in ConsumeKinds THEN NULL
                 ELSE IF kind \in ForwardKinds THEN L.start ELSE L.end,
     prev |-> NULL, nones |-> 0, nodes |-> <<>>, origin |-> L]

IterStart(kind) ==
    /\ Running
    /\ cursor = NoCursor
    /\ cursor' = StartCursor(Cur, kind)
    /\ UNCHANGED <<size, start, end, heap, fault, dropped, last, trip, other>>

Counted(nones, item) == IF item = NONE /\ nones < 2 THEN nones + 1 ELSE nones

\* next() of a borrowing cursor
BorrowNext ==
    /\ fault = "none"
    /\ last = Idle
    /\ cursor.kind \in BorrowKinds
    /\ Len(cursor.nodes) <= MaxAddr
    /\ LET n == IF cursor.kind \in RefKinds
                THEN iter_next(heap, cursor.current, cursor.prev)
                ELSE iter_mut_next(heap, cursor.current, cursor.prev)
       IN
       /\ cursor' = [cursor EXCEPT
                        !.current = n.current,
                        !.prev = n.prev,
                        !.nones = Counted(@, n.item),
                        !.nodes = IF n.node = NULL THEN @ ELSE Append(@, n.node)]
       /\ heap' = n.heap
       /\ fault' = n.fault
       /\ last' = [Idle EXCEPT !.op = "next", !.ret = n.item]
    /\ UNCHANGED <<size, start, end, dropped, trip, other>>

\* next() of a consuming cursor: pop_front or pop_back of the list it owns
ConsumeNext ==
    /\ fault = "none"
    /\ last = Idle
    /\ cursor.kind \in ConsumeKinds
    /\ LET r == IF cursor.kind = "into_iter" THEN pop_front(Cur) ELSE pop_back(Cur)
       IN
       /\ Commit(r, "next", 0, NONE, 0)
       /\ cursor' = [cursor EXCEPT
                        !.nones = Counted(@, r.ret),
                        !.nodes = IF r.fault # "none" \/ r.ret = NONE THEN @
                                  ELSE IF cursor.kind = "into_iter"
                                  THEN Append(@, start) ELSE Append(@, end)]
    /\ UNCHANGED <<dropped, trip, other>>

\* the cursor goes out of scope, at whatever position it is: a borrowing
\* one gives the list back (last.steps keeps how many nodes it had yielded),
\* a consuming one drops the list it owns
CursorDrop ==
    /\ fault = "none"
    /\ last = Idle
    /\ ~dropped
    /\ cursor.kind \in BorrowKinds \cup ConsumeKinds
    /\ IF cursor.kind \in BorrowKinds
       THEN /\ cursor' = NoCursor
            /\ last' = [Idle EXCEPT !.op = "cursor_drop",
                                    !.steps = Len(cursor.nodes)]
            /\ UNCHANGED <<size, start, end, heap, fault, dropped>>
       ELSE /\ cursor' = cursor
            /\ LET c == clear_loop(Cur, 0) IN
               Commit(Returning(c.list, NONE), "drop", 0, NONE, c.pops)
            /\ dropped' = TRUE
    /\ UNCHANGED <<trip, other>>

\* the calls that build the list while no cursor exists
Build ==
    /\ cursor = NoCursor
    /\ \/ \E value \in Values : PushFront(value)
       \/ \E value \in Values : PushBack(value)
       \/ PopFront
       \/ PopBack
       \/ \E index \in Indexes, value \in Values : InsertAt(index, value)
       \/ \E index \in Indexes : RemoveAt(index)
       \/ Reverse

NextCursor ==
    \/ Build
    \/ \E kind \in BorrowKinds \cup ConsumeKinds : IterStart(kind)
    \/ BorrowNext
    \/ ConsumeNext
    \/ CursorDrop
    \/ Discard

SpecCursor == Init /\ [][NextCursor]_vars

\* ------------------------------------------------------------ round trip
\* A caller that pushes the values of `input` at one end of a new list and
\* then pops as many times at the other end, keeping what the pops return.
TripValues == {1, 2}

RECURSIVE SeqsUpTo(_)
SeqsUpTo(n) ==
    IF n = 0 THEN {<<>>}
    ELSE LET shorter == SeqsUpTo(n - 1) IN
         shorter \cup {Append(s, v) : s \in shorter, v \in TripValues}

InitTrip ==
    /\ size = new.size
    /\ start = new.start
    /\ end = new.end
    /\ heap = new.heap
    /\ fault = "none"
    /\ dropped = FALSE
    /\ last = Idle
    /\ cursor = NoCursor
    /\ other = NoOther
    /\ \E mode \in {"back_front", "front_back"}, input \in SeqsUpTo(MaxTrip) :
          trip = [mode |-> mode, input |-> input, pushed |-> 0, output |-> <<>>]

TripPush ==
    /\ Running
    /\ trip.pushed < Len(trip.input)
    /\ LET value == trip.input[trip.pushed + 1] IN
       \E new_node \in FreeAddrs(heap) :
          IF trip.mode = "back_front"
          THEN Commit(push_back(Cur, new_node, value), "push_back", 0, value, 0)
          ELSE Commit(push_front(Cur, new_node, value), "push_front", 0, value, 0)
    /\ trip' = [trip EXCEPT !.pushed = @ + 1]
    /\ UNCHANGED <<dropped, cursor, other>>

TripPop ==
    /\ Running
    /\ trip.pushed = Len(trip.input)
    /\ Len(trip.output) < Len(trip.input)
    /\ LET r == IF trip.mode = "back_front" THEN pop_front(Cur) ELSE pop_back(Cur) IN
       /\ Commit(r, IF trip.mode = "back_front" THEN "pop_front" ELSE "pop_back",
                 0, NONE, 0)
       /\ trip' = [trip EXCEPT !.output = Append(@, r.ret)]
    /\ UNCHANGED <<dropped, cursor, other>>

NextTrip ==
    \/ TripPush
    \/ TripPop
    \/ Discard

SpecRoundTrip == InitTrip /\ [][NextTrip]_vars

\* ------------------------------------------------------------ two lists
\* A caller that holds two lists, builds each by push_back of values of its
\* choice, overwrites elements of the first and compares the two. The nodes
\* of both lists live in the one heap; `other` holds the fields of the
\* second list.
MaxEqLen == 2

OtherList == List(other.size, other.start, other.end, heap)
OtherNext == List(other'.size, other'.start, other'.end, heap')

\* list1.push_back(value)
EqPushBack(value) ==
    /\ Running
    /\ size < MaxEqLen
    /\ \E new_node \in FreeAddrs(heap) :
          LET r == push_back(Cur, new_node, value) IN
          /\ size' = r.size
          /\ start' = r.start
          /\ end' = r.end
          /\ heap' = r.heap
          /\ fault' = r.fault
    /\ UNCHANGED <<dropped, last, trip, cursor, other>>

\* list2.push_back(value)
EqPushBackOther(value) ==
    /\ Running
    /\ other.size < MaxEqLen
    /\ \E new_node \in FreeAddrs(heap) :
          LET r == push_back(OtherList, new_node, value) IN
          /\ other' = [size |-> r.size, start |-> r.start, end |-> r.end]
          /\ heap' = r.heap
          /\ fault' = r.fault
    /\ UNCHANGED <<size, start, end, dropped, last, trip, cursor>>

\* list1[index] = value, index in range
EqStore(i, value) ==
    /\ Running
    /\ i < size
    /\ LET r == index_mut_store(Cur, i, value) IN
       /\ heap' = r.heap
       /\ fault' = r.fault
    /\ UNCHANGED <<size, start, end, dropped, last, trip, cursor, other>>

\* list1 == list2; the bool is recorded as 1 (true) or 0 (false)
EqCompare ==
    /\ Running
    /\ LET e == eq(Cur, OtherList) IN
       /\ fault' = e.fault
       /\ last' = [Idle EXCEPT !.op = "eq", !.ret = IF e.ret THEN 1 ELSE 0]
    /\ UNCHANGED <<size, start, end, heap, dropped, trip, cursor, other>>

NextEq ==
    \/ \E value \in TripValues : EqPushBack(value)
    \/ \E value \in TripValues : EqPushBackOther(value)
    \/ \E i \in Indexes, value \in TripValues : EqStore(i, value)
    \/ EqCompare
    \/ Discard

SpecEq == Init /\ [][NextEq]_vars

\* ------------------------------------------------------------ vocabulary
\* the list after the step
CurNext == List(size', start', end', heap')
SeqSet(s) == {s[k] : k \in 1..Len(s)}
Rev(s) == [k \in 1..Len(s) |-> s[Len(s) + 1 - k]]
\* s with v put at 0-based position i, and s without its 0-based position i
Inserted(s, i, v) == SubSeq(s, 1, i) \o <<v>> \o SubSeq(s, i + 1, Len(s))
Removed(s, i) == SubSeq(s, 1, i) \o SubSeq(s, i + 2, Len(s))

\* ------------------------------------------------------------ claims

\* C1: in every reachable state size = 0 iff both anchors are null, size = 1
\* iff start = end and non-null, for size >= 2 the anchors are distinct and
\* non-null, and decoding from start with arrived-from = null visits exactly
\* size distinct live nodes, the last being end, and then decodes to null.
C1_Structure ==
    LET f == iter(Cur) IN
    /\ (size = 0) <=> (start = NULL /\ end = NULL)
    /\ (size = 1) <=> (start = end /\ start # NULL)
    /\ size >= 2 => (start # end /\ start # NULL /\ end # NULL)
    /\ f.stop = "done"
    /\ Len(f.nodes) = size
    /\ Cardinality(SeqSet(f.nodes)) = size
    /\ SeqSet(f.nodes) \subseteq DOMAIN heap
    /\ size >= 1 => (f.nodes[1] = start /\ f.nodes[size] = end)

\* a full list whose last node was spliced in between two nodes
C1_Witness ==
    /\ size = MaxAddr
    /\ last.op = "insert_at"
    /\ last.index = 2
    /\ iter(Cur).nodes[size] = end
    /\ start # end

\* C2: in every reachable state the xor_ptr of each live node is the XOR of
\* the addresses of its predecessor and its successor in start-to-end order,
\* a missing neighbour counting as 0; every live node is on that order.
C2_LinkEncoding ==
    LET nodes == iter(Cur).nodes
        n == Len(nodes)
    IN
    /\ n = size
    /\ SeqSet(nodes) = DOMAIN heap
    /\ \A k \in 1..n :
          heap[nodes[k]].xor_ptr =
             xor_ptrs(IF k = 1 THEN NULL ELSE nodes[k - 1],
                      IF k = n THEN NULL ELSE nodes[k + 1])
    /\ n >= 2 => (heap[start].xor_ptr = nodes[2] /\ heap[end].xor_ptr = nodes[n - 1])
    /\ n = 1 => heap[start].xor_ptr = NULL

\* an interior node, just inserted, whose link is the address of neither
\* neighbour
C2_Witness ==
    /\ last.op = "insert_at"
    /\ ~last.panicked
    /\ 0 < last.index
    /\ last.index < size - 1
    /\ LET nodes == iter(Cur).nodes
           k == last.index + 1
       IN /\ heap[nodes[k]].payload = last.value
          /\ heap[nodes[k]].xor_ptr = xor_ptrs(nodes[k - 1], nodes[k + 1])
          /\ heap[nodes[k]].xor_ptr \notin {nodes[k - 1], nodes[k + 1], NULL}

\* C3: every node is allocated exactly once, by push_front, push_back or
\* insert_at, and deallocated exactly once, by pop_front, pop_back,
\* remove_at, clear or drop (or by a consuming traversal, which pops): no
\* node is freed twice and no freed node is dereferenced (fault stays
\* "none"), the live nodes are always exactly the nodes on the chain, and
\* after drop no node is allocated.
C3_Lifecycle ==
    [][ LET before == DOMAIN heap
            after == DOMAIN heap'
            op == last'.op
        IN
        /\ fault' = "none"
        /\ after = SeqSet(iter(CurNext).nodes)
        /\ op \in {"push_front", "push_back"} =>
              \E node \in Addrs \ before : after = before \cup {node}
        /\ op = "insert_at" =>
              IF last'.panicked THEN after = before
              ELSE \E node \in Addrs \ before : after = before \cup {node}
        /\ op \in {"pop_front", "pop_back", "remove_at"} =>
              IF last'.ret = NONE THEN after = before
              ELSE \E node \in before :
                      /\ after = before \ {node}
                      /\ heap[node].payload = last'.ret
        /\ op = "insert_at;remove_at" => after = before
        /\ op \in {"clear", "drop", "into_iter"} =>
              (after = {} /\ last'.steps = Cardinality(before))
        /\ op \in {"get", "reverse", "idle"} => after = before
        /\ dropped' => after = {}
      ]_vars

\* a list of at least three nodes has been dropped and nothing is allocated
C3_Witness ==
    /\ dropped
    /\ last.op = "drop"
    /\ last.steps >= 3
    /\ DOMAIN heap = {}
    /\ fault = "none"

\* C4: from an empty list, push_back of n values followed by n pop_front
\* calls returns the values in the original order, and so does push_front
\* of n values followed by n pop_back calls; the list is empty afterwards.
C4_RoundTrip ==
    /\ fault = "none"
    /\ Len(trip.output) <= Len(trip.input)
    /\ trip.output = SubSeq(trip.input, 1, Len(trip.output))
    /\ (trip.pushed = Len(trip.input) /\ Len(trip.output) = Len(trip.input)) =>
          /\ trip.output = trip.input
          /\ size = 0
          /\ start = NULL
          /\ end = NULL
          /\ DOMAIN heap = {}

\* three values, not all equal, pushed at the front and popped at the back
C4_Witness ==
    /\ trip.mode = "front_back"
    /\ Len(trip.input) = MaxTrip
    /\ trip.input[1] # trip.input[MaxTrip]
    /\ trip.output = trip.input
    /\ last.op = "pop_back"
    /\ size = 0

\* C5: for every i < size, get(i) is the i-th element of the forward
\* borrowing traversal and the (size-1-i)-th element of the backward
\* borrowing traversal, and the backward traversal is the exact reverse of
\* the forward one; get(i) is None for i >= size.
C5_IndexTraversal ==
    LET f == iter(Cur)
        b == reverse_iter(Cur)
    IN
    /\ f.stop = "done"
    /\ b.stop = "done"
    /\ Len(f.items) = size
    /\ Len(b.items) = size
    /\ b.items = Rev(f.items)
    /\ \A i \in 0..(size - 1) :
          LET g == get(Cur, i) IN
          /\ g.fault = "none"
          /\ g.ret = f.items[i + 1]
          /\ g.ret = b.items[size - i]
    /\ last.op = "get" =>
          last.ret = IF last.index < size THEN f.items[last.index + 1] ELSE NONE

\* get(3) on a full list walked from the back, after the element there was
\* the target of a call
C5_Witness ==
    /\ last.op = "get"
    /\ size = MaxAddr
    /\ last.index > size \div 2
    /\ last.index < size - 1
    /\ last.ret = iter(Cur).items[last.index + 1]
    /\ last.ret = reverse_iter(Cur).items[size - last.index]
    /\ last.ret # heap[end].payload

\* C6: for every reachable list with forward sequence s and every index
\* i <= size, insert_at(i, v) does not panic and leaves the sequence
\* s[0..i) ++ <<v>> ++ s[i..size): v is at position i, earlier elements keep
\* their position, later ones move up by one, and size grows by exactly 1,
\* whichever end the locate walk starts from.
C6_InsertAt ==
    [][ (last'.op = "insert_at" /\ last'.index <= size) =>
          LET s == iter(Cur).items
              t == iter(CurNext)
              i == last'.index
              v == last'.value
          IN
          /\ ~last'.panicked
          /\ fault' = "none"
          /\ t.stop = "done"
          /\ t.items = Inserted(s, i, v)
          /\ get(CurNext, i).ret = v
          /\ \A k \in 0..(size - 1) :
                get(CurNext, IF k < i THEN k ELSE k + 1).ret = get(Cur, k).ret
          /\ size' = size + 1
      ]_vars

\* an interior insert located by the walk from the back
C6_Witness ==
    /\ last.op = "insert_at"
    /\ ~last.panicked
    /\ last.index > (size - 1) \div 2
    /\ last.index < size - 1
    /\ size >= 4
    /\ iter(Cur).items[last.index + 1] = last.value

\* C7: remove_at(i) with i >= size returns None and leaves size, anchors,
\* links and payloads unchanged; remove_at(i) with i < size returns s[i],
\* leaves s with position i deleted, decrements size by exactly 1 and
\* deallocates exactly the removed node.
C7_RemoveAt ==
    [][ last'.op = "remove_at" =>
          LET s == iter(Cur)
              t == iter(CurNext)
              i == last'.index
          IN
          /\ fault' = "none"
          /\ ~last'.panicked
          /\ IF i >= size
             THEN /\ last'.ret = NONE
                  /\ UNCHANGED <<size, start, end, heap>>
             ELSE /\ last'.ret = s.items[i + 1]
                  /\ t.stop = "done"
                  /\ t.items = Removed(s.items, i)
                  /\ t.nodes = Removed(s.nodes, i)
                  /\ size' = size - 1
                  /\ DOMAIN heap' = (DOMAIN heap) \ {s.nodes[i + 1]}
                  /\ \A node \in DOMAIN heap' : heap'[node].payload = heap[node].payload
      ]_vars

\* an interior remove located by the walk from the back
C7_Witness ==
    /\ last.op = "remove_at"
    /\ last.ret # NONE
    /\ last.index > (size + 1) \div 2
    /\ last.index < size
    /\ last.ret \notin SeqSet(iter(Cur).items)
    /\ Cardinality(DOMAIN heap) = size

\* C8: for every reachable list and every i <= size, insert_at(i, v)
\* immediately followed by remove_at(i) returns v and restores the list:
\* same length, same forward sequence and same backward sequence.
C8_InsertRemove ==
    [][ last'.op = "insert_at;remove_at" =>
          /\ fault' = "none"
          /\ ~last'.panicked
          /\ last'.ret = last'.value
          /\ len(CurNext) = len(Cur)
          /\ iter(CurNext) = iter(Cur)
          /\ reverse_iter(CurNext) = reverse_iter(Cur)
      ]_vars

\* the pair was run at an interior index reached from the back
C8_Witness ==
    /\ last.op = "insert_at;remove_at"
    /\ last.ret = last.value
    /\ last.index > (size + 1) \div 2
    /\ last.index < size
    /\ size >= 4

\* C9: one reverse() makes the forward traversal equal to the backward
\* traversal of the state before the call, a second reverse() restores the
\* original order, and reverse() changes only the two anchors: size, every
\* link field and every payload stay as they were.
C9_Reverse ==
    [][ last'.op = "reverse" =>
          /\ fault' = "none"
          /\ iter(CurNext).items = reverse_iter(Cur).items
          /\ iter(CurNext).items = Rev(iter(Cur).items)
          /\ reverse_iter(CurNext).items = iter(Cur).items
          /\ iter(reverse(CurNext)).items = iter(Cur).items
          /\ reverse_iter(reverse(CurNext)).items = reverse_iter(Cur).items
          /\ size' = size
          /\ heap' = heap
          /\ start' = end
          /\ end' = start
      ]_vars

\* a list of at least three elements has been reversed
C9_Witness ==
    /\ last.op = "reverse"
    /\ size >= 3
    /\ iter(Cur).items # reverse_iter(Cur).items
    /\ iter(reverse(Cur)).items = reverse_iter(Cur).items

\* C10: after any sequence of push, pop, insert_at and remove_at calls, the
\* ones that return None included, len() is the number of elements a
\* consuming forward traversal (pop_front until None) then yields.
C10_LenIsDrainCount ==
    [][ /\ LET d == into_iter_collect(CurNext, <<>>) IN
           /\ d.stop = "done"
           /\ Len(d.items) = len(CurNext)
        /\ last'.op = "into_iter" =>
              /\ fault' = "none"
              /\ last'.steps = len(Cur)
              /\ last'.steps = Len(iter(Cur).items)
      ]_vars

\* a full list has been drained by the consuming cursor
C10_Witness ==
    /\ last.op = "into_iter"
    /\ last.steps = MaxAddr
    /\ dropped
    /\ len(Cur) = 0

\* C11: insert_at(index, value) with index > size panics before anything is
\* changed: no node is allocated and size, both anchors and every link field
\* are as before the call; with index <= size the call does not panic.
C11_InsertPanics ==
    [][ last'.op = "insert_at" =>
          /\ fault' = "none"
          /\ last'.panicked <=> (last'.index > size)
          /\ last'.index > size =>
                /\ size' = size
                /\ start' = start
                /\ end' = end
                /\ heap' = heap
                /\ DOMAIN heap' = DOMAIN heap
          /\ last'.index <= size => size' = size + 1
      ]_vars

\* insert_at has panicked on a list of at least two elements, one past the
\* largest index it accepts
C11_Witness ==
    /\ last.op = "insert_at"
    /\ last.panicked
    /\ last.index = size + 1
    /\ size >= 2
    /\ fault = "none"

\* C12: pop_front and pop_back on an empty list return None and leave size
\* at 0, both anchors null and the heap untouched, however often they are
\* repeated (what the two debug_assert!s of pop_end test holds); a push onto
\* the empty list then gives a one-element list whose only node is both
\* anchors and has a null link field.
C12_PopEmpty ==
    [][ /\ (last'.op \in {"pop_front", "pop_back"} /\ size = 0) =>
              /\ last'.ret = NONE
              /\ ~last'.panicked
              /\ fault' = "none"
              /\ size' = 0
              /\ start' = NULL
              /\ end' = NULL
              /\ heap' = heap
              /\ (start' = NULL \/ end' = NULL) => (start' = end' /\ size' = 0)
              /\ pop_front(CurNext) = CurNext
              /\ pop_back(CurNext) = CurNext
              /\ \A new_node \in FreeAddrs(heap') :
                    \A L \in {push_front(pop_back(CurNext), new_node, Tag(new_node)),
                              push_back(pop_front(CurNext), new_node, Tag(new_node))} :
                       /\ L.fault = "none"
                       /\ L.size = 1
                       /\ L.start = new_node
                       /\ L.end = new_node
                       /\ DOMAIN L.heap = DOMAIN heap' \cup {new_node}
                       /\ L.heap[new_node].xor_ptr = NULL
                       /\ iter(L).items = <<Tag(new_node)>>
        /\ (last'.op \in {"pop_front", "pop_back"} /\ last'.ret = NONE) => size = 0
      ]_vars

\* pop_back has returned None on an empty list
C12_Witness ==
    /\ last.op = "pop_back"
    /\ last.ret = NONE
    /\ size = 0
    /\ start = NULL
    /\ end = NULL
    /\ fault = "none"

\* C13: in every reachable state get(i) and get_mut(i) return None exactly
\* when i >= size, without panic and without touching a null or freed node;
\* list[i], read or written, panics exactly when i >= size and otherwise is
\* the element get(i), which is the i-th element of the forward traversal.
C13_IndexBounds ==
    /\ LET items == iter(Cur).items IN
       \A i \in Indexes :
          LET g == get(Cur, i)
              gm == get_mut(Cur, i)
              ix == Index_index(Cur, i)
              ixm == index_mut(Cur, i)
          IN
          /\ g.fault = "none"
          /\ gm.fault = "none"
          /\ ix.fault = "none"
          /\ ixm.fault = "none"
          /\ (g.ret = NONE) <=> (i >= size)
          /\ (gm.ret = NONE) <=> (i >= size)
          /\ ix.panicked <=> (i >= size)
          /\ ixm.panicked <=> (i >= size)
          /\ i < size =>
                /\ g.ret = items[i + 1]
                /\ gm.ret = g.ret
                /\ ix.ret = g.ret
                /\ ixm.ret = g.ret
    /\ last.op \in {"get", "get_mut", "index", "index_mut"} =>
          /\ fault = "none"
          /\ (last.ret = NONE) <=> (last.index >= size)
          /\ last.panicked <=>
                (last.op \in {"index", "index_mut"} /\ last.index >= size)
          /\ last.index < size => last.ret = get(Cur, last.index).ret

\* list[size] has just panicked on a list of at least two elements
C13_Witness ==
    /\ last.op = "index_mut"
    /\ last.panicked
    /\ last.index = size
    /\ size >= 2
    /\ get(Cur, size - 1).ret # NONE
    /\ get_mut(Cur, size).ret = NONE

\* C16: in every reachable state peek_front and peek_front_mut return None
\* iff the list is empty and otherwise the element get(0); peek_back and
\* peek_back_mut return None iff the list is empty and otherwise the element
\* get(size - 1); none of the four changes size, anchors or a link field,
\* and no debug assertion of the empty branch fails.
C16_Peek ==
    [][ /\ \A q \in {peek_front(CurNext), peek_front_mut(CurNext),
                      peek_back(CurNext), peek_back_mut(CurNext)} :
              /\ q.fault = "none"
              /\ ~q.debug_panic
              /\ (q.ret = NONE) <=> (size' = 0)
        /\ size' > 0 =>
              /\ peek_front(CurNext).ret = get(CurNext, 0).ret
              /\ peek_front_mut(CurNext).ret = get(CurNext, 0).ret
              /\ peek_back(CurNext).ret = get(CurNext, size' - 1).ret
              /\ peek_back_mut(CurNext).ret = get(CurNext, size' - 1).ret
        /\ last'.op \in {"peek_front", "peek_front_mut",
                         "peek_back", "peek_back_mut"} =>
              /\ fault' = "none"
              /\ ~last'.panicked
              /\ size' = size
              /\ start' = start
              /\ end' = end
              /\ heap' = heap
              /\ (last'.ret = NONE) <=> (size = 0)
              /\ size > 0 =>
                    last'.ret = IF last'.op \in {"peek_front", "peek_front_mut"}
                                THEN get(Cur, 0).ret
                                ELSE get(Cur, size - 1).ret
      ]_vars

\* peek_back has returned the last element of a list of at least three
\* elements, which is not the first one
C16_Witness ==
    /\ last.op = "peek_back"
    /\ size >= 3
    /\ last.ret = get(Cur, size - 1).ret
    /\ last.ret # get(Cur, 0).ret
    /\ last.ret # NONE

\* C15: for every reachable list the consuming forward traversal
\* (into_iter) yields the sequence the borrowing forward traversal yields on
\* the list before it is consumed, and the consuming backward traversal
\* (into_reverse_iter) yields exactly the reverse of that sequence.
C15_ConsumingTraversals ==
    [][ /\ last'.op = "into_iter" =>
              /\ fault' = "none"
              /\ last'.seq = iter(Cur).items
              /\ last'.seq = Rev(reverse_iter(Cur).items)
              /\ Len(last'.seq) = len(Cur)
        /\ last'.op = "into_reverse_iter" =>
              /\ fault' = "none"
              /\ last'.seq = Rev(iter(Cur).items)
              /\ last'.seq = reverse_iter(Cur).items
              /\ last'.seq = Rev(into_iter_collect(Cur, <<>>).items)
      ]_vars

\* a list of at least three elements has been consumed from the back
C15_Witness ==
    /\ last.op = "into_reverse_iter"
    /\ Len(last.seq) >= 3
    /\ last.seq # Rev(last.seq)
    /\ dropped
    /\ size = 0

\* C18: extend(source) appends the values of the source at the back in
\* source order, keeps the elements the list had and their order and raises
\* len() by the length of the source; the forward traversal of
\* from_iter(source) is the source.
C18_ExtendFromIter ==
    [][ /\ last'.op = "extend" =>
              /\ fault' = "none"
              /\ iter(CurNext).items = iter(Cur).items \o last'.seq
              /\ SubSeq(iter(CurNext).nodes, 1, size) = iter(Cur).nodes
              /\ len(CurNext) = len(Cur) + Len(last'.seq)
        /\ last'.op = "from_iter" =>
              /\ fault' = "none"
              /\ iter(CurNext).items = last'.seq
              /\ len(CurNext) = Len(last'.seq)
      ]_vars

\* a list of two elements has been extended by a source of MaxTrip values
C18_Witness ==
    /\ last.op = "extend"
    /\ Len(last.seq) = MaxTrip
    /\ size = MaxTrip + 2
    /\ SubSeq(iter(Cur).items, 3, size) = last.seq

\* the structural and the link-encoding invariant, of a list L
WellFormed(L) ==
    LET f == iter(L)
        nodes == f.nodes
        n == Len(nodes)
    IN
    /\ f.stop = "done"
    /\ n = L.size
    /\ (L.size = 0) <=> (L.start = NULL /\ L.end = NULL)
    /\ (L.size = 1) <=> (L.start = L.end /\ L.start # NULL)
    /\ L.size >= 2 => (L.start # L.end /\ L.start # NULL /\ L.end # NULL)
    /\ Cardinality(SeqSet(nodes)) = n
    /\ SeqSet(nodes) = DOMAIN L.heap
    /\ n >= 1 => (nodes[1] = L.start /\ nodes[n] = L.end)
    /\ \A k \in 1..n :
          L.heap[nodes[k]].xor_ptr =
             xor_ptrs(IF k = 1 THEN NULL ELSE nodes[k - 1],
                      IF k = n THEN NULL ELSE nodes[k + 1])

\* C20: after reverse() the former tail is the front. With s the forward
\* sequence before the call and r its reverse, the reversed list is, field
\* by field, the list built directly by pushing r at the back into the same
\* cells, and on it push_front, pop_front, peek_front, get, insert_at and
\* remove_at act as on r; the structural and the link-encoding invariant
\* hold after every step of every run, reverse() steps included.
C20_ReverseRefines ==
    [][ /\ fault' = "none" => WellFormed(CurNext)
        /\ last'.op = "reverse" =>
              LET L == CurNext
                  s == iter(Cur).items
                  r == Rev(s)
                  n == Len(s)
                  built == extend(new, r, Rev(iter(Cur).nodes))
              IN
              /\ fault' = "none"
              /\ built.fault = "none"
              /\ built.size = L.size
              /\ built.start = L.start
              /\ built.end = L.end
              /\ built.heap = L.heap
              /\ iter(L).items = r
              /\ peek_front(L).ret = IF n = 0 THEN NONE ELSE r[1]
              /\ pop_front(L).ret = IF n = 0 THEN NONE ELSE r[1]
              /\ n > 0 => iter(pop_front(L)).items = Tail(r)
              /\ \A i \in 0..(n - 1) :
                    /\ get(L, i).ret = r[i + 1]
                    /\ get(L, i).ret = s[n - i]
                    /\ remove_at(L, i).ret = r[i + 1]
                    /\ iter(remove_at(L, i)).items = Removed(r, i)
                    /\ WellFormed(remove_at(L, i))
              /\ \A new_node \in FreeAddrs(heap') :
                    LET v == Tag(new_node) IN
                    /\ iter(push_front(L, new_node, v)).items = <<v>> \o r
                    /\ WellFormed(push_front(L, new_node, v))
                    /\ \A i \in 0..n :
                          /\ iter(insert_at(L, i, new_node, v)).items =
                                Inserted(r, i, v)
                          /\ WellFormed(insert_at(L, i, new_node, v))
      ]_vars

\* a list of three different elements has been reversed and has room for
\* one more
C20_Witness ==
    /\ last.op = "reverse"
    /\ size = 3
    /\ FreeAddrs(heap) # {}
    /\ peek_front(Cur).ret = reverse_iter(reverse(Cur)).items[1]
    /\ peek_front(Cur).ret # peek_back(Cur).ret
    /\ get(Cur, 1).ret = iter(Cur).items[2]

\* C14: for every kind of cursor (shared, mutable, consuming; forward and
\* backward), once next() has returned None every later next() returns None
\* and changes neither the fields of the cursor nor the list.
C14_DoneAbsorbing ==
    [][ (last'.op = "next" /\ cursor.nones >= 1) =>
          /\ last'.ret = NONE
          /\ fault' = "none"
          /\ cursor'.current = cursor.current
          /\ cursor'.prev = cursor.prev
          /\ cursor'.nodes = cursor.nodes
          /\ size' = size
          /\ start' = start
          /\ end' = end
          /\ heap' = heap
      ]_vars

\* a backward mutable cursor over three elements has returned None twice
C14_Witness ==
    /\ cursor.kind = "reverse_iter_mut"
    /\ cursor.nones = 2
    /\ last.op = "next"
    /\ last.ret = NONE
    /\ size = 3
    /\ Len(cursor.nodes) = 3

\* C19: a shared or mutable cursor started at either anchor of a list that
\* is not changed meanwhile yields the nodes of the chain from that anchor
\* on, one per successful next(), each a live node and none twice, and
\* returns None exactly when len() nodes have been yielded.
C19_CursorVisitsEachOnce ==
    cursor.kind \in BorrowKinds =>
       LET k == Len(cursor.nodes)
           chain == IF cursor.kind \in ForwardKinds THEN iter(Cur).nodes
                    ELSE Rev(iter(Cur).nodes)
       IN
       /\ fault = "none"
       /\ k <= len(Cur)
       /\ cursor.nodes = SubSeq(chain, 1, k)
       /\ Cardinality(SeqSet(cursor.nodes)) = k
       /\ SeqSet(cursor.nodes) \subseteq DOMAIN heap
       /\ NULL \notin SeqSet(cursor.nodes)
       /\ (cursor.current = NULL) <=> (k = len(Cur))
       /\ cursor.nones >= 1 =>
             (k = len(Cur) /\ SeqSet(cursor.nodes) = DOMAIN heap)
       /\ (last.op = "next" /\ last.ret = NONE) => k = len(Cur)
       /\ (last.op = "next" /\ last.ret # NONE) =>
             (k >= 1 /\ last.ret = heap[cursor.nodes[k]].payload)

\* a mutable forward cursor has yielded all the nodes of a full list and
\* then returned None
C19_Witness ==
    /\ cursor.kind = "iter_mut"
    /\ size = MaxAddr
    /\ Len(cursor.nodes) = size
    /\ cursor.nones = 1
    /\ last.op = "next"
    /\ last.ret = NONE

\* C17: two lists compare equal iff they have the same length and their
\* forward traversals agree element by element. Lists built one by one from
\* the same values are equal, lists of different length are unequal also
\* when one is a prefix of the other, and a store that changes one element
\* of one of two equal lists makes them unequal.
C17_Equality ==
    [][ /\ fault' = "none"
        /\ last'.op = "eq" =>
              LET A == Cur
                  B == OtherList
                  e == eq(A, B)
                  same == (iter(A).items = iter(B).items)
              IN
              /\ CurNext = A
              /\ OtherNext = B
              /\ e.fault = "none"
              /\ (last'.ret = 1) <=> e.ret
              /\ e.ret <=> same
              /\ e.ret <=> (len(A) = len(B) /\
                             \A i \in 0..(len(A) - 1) : get(A, i).ret = get(B, i).ret)
              /\ eq(B, A).ret = e.ret
              /\ eq(A, A).ret /\ eq(B, B).ret
              /\ len(A) # len(B) => ~e.ret
        /\ (heap' # heap /\ size' = size /\ other' = other) =>
              /\ iter(OtherNext).items = iter(OtherList).items
              /\ eq(Cur, OtherList).ret => ~eq(CurNext, OtherNext).ret
      ]_vars

\* the comparison has returned false for two lists of which the first is
\* the second without its last element
C17_Witness ==
    /\ last.op = "eq"
    /\ last.ret = 0
    /\ size = 1
    /\ other.size = 2
    /\ iter(Cur).items = SubSeq(iter(OtherList).items, 1, 1)
    /\ eq_zip_only(Cur, OtherList).ret

Min(a, b) == IF a <= b THEN a ELSE b

\* C21, as stated: for every index < size the walk of get(index) and
\* get_mut(index) decodes exactly min(index, size - 1 - index) links.
C21_Original ==
    (last.op \in {"get", "get_mut"} /\ last.index < size) =>
       last.steps = Min(last.index, size - 1 - last.index)

\* C21, amended: for every index < size, get(index) and get_mut(index) walk
\* from the head if index <= size/2 and from the tail otherwise, and find the
\* node at position index; the number of link decodes is index in the first
\* case and size - 1 - index in the second. That is
\* min(index, size - 1 - index) except when size is even and index = size/2:
\* there the walk starts at the head and decodes size/2 links, one more than
\* the distance from the tail.
C21_NearerEnd ==
    (last.op \in {"get", "get_mut"} /\ last.index < size) =>
       LET i == last.index
           from_head == i <= size \div 2
           w == get_ptr_at(Cur, i)
           nodes == iter(Cur).nodes
           midpoint == (size % 2 = 0 /\ i = size \div 2)
       IN
       /\ fault = "none"
       /\ w.fault = "none"
       /\ w.current = nodes[i + 1]
       /\ last.steps = w.decodes
       /\ last.steps = IF from_head THEN i ELSE size - 1 - i
       /\ from_head => walk(heap, start, NULL, last.steps).current = nodes[i + 1]
       /\ ~from_head => walk(heap, end, NULL, last.steps).current = nodes[i + 1]
       /\ ~midpoint => last.steps = Min(i, size - 1 - i)
       /\ midpoint => last.steps = Min(i, size - 1 - i) + 1

\* get(2) on a list of four elements has decoded two links from the head,
\* the node being one link away from the tail
C21_Witness ==
    /\ last.op = "get"
    /\ size = 4
    /\ last.index = 2
    /\ last.steps = 2
    /\ last.ret = heap[heap[end].xor_ptr].payload

\* C22: for every index < size the walk of get(index) decodes at most
\* min(index, size - index) links and never more than size/2 links.
C22_WalkCost ==
    (last.op \in {"get", "get_mut"} /\ last.index < size) =>
       /\ fault = "none"
       /\ last.steps = get(Cur, last.index).decodes
       /\ last.steps <= Min(last.index, size - last.index)
       /\ 2 * last.steps <= size
       /\ last.steps <= size \div 2

\* get(3) on a list of five elements has decoded one link, from the tail
C22_Witness ==
    /\ last.op = "get"
    /\ size = 5
    /\ last.index = 3
    /\ last.steps = 1
    /\ last.ret # NONE

\* C26: for every reachable list and every index with 0 < index < size,
\* index = size - 1 included, get_ptr_at_and_prev(index) returns the node at
\* position index and the node at position index - 1, in that order, both
\* non-null and live, after index decodes from the front when
\* index <= size/2 and after size - index decodes from the back and the
\* swap otherwise; insert_at puts the new node between the two.
C26_PtrAndPrev ==
    [][ last'.op \in {"insert_at", "remove_at"} =>
          LET nodes == iter(Cur).nodes IN
          /\ \A i \in 1..(size - 1) :
                LET w == get_ptr_at_and_prev(Cur, i) IN
                /\ w.fault = "none"
                /\ w.current = nodes[i + 1]
                /\ w.prev = nodes[i]
                /\ w.current # NULL /\ w.prev # NULL
                /\ Live(heap, w.current) /\ Live(heap, w.prev)
                /\ w.current = get_ptr_at(Cur, i).current
                /\ w.prev = get_ptr_at(Cur, i - 1).current
                /\ w.decodes = IF i > size \div 2 THEN size - i ELSE i
          /\ (last'.op = "insert_at" /\ 0 < last'.index /\ last'.index < size) =>
                LET i == last'.index
                    w == get_ptr_at_and_prev(Cur, i)
                    after == iter(CurNext).nodes
                IN
                /\ fault' = "none"
                /\ after[i] = w.prev
                /\ after[i + 2] = w.current
                /\ after[i + 1] \notin DOMAIN heap
                /\ heap'[after[i + 1]].xor_ptr = xor_ptrs(w.prev, w.current)
      ]_vars

\* insert_at(size - 1) on a list of four elements has put the new node
\* before the last one: the pair was found by one decode from the back
C26_Witness ==
    /\ last.op = "insert_at"
    /\ ~last.panicked
    /\ size = 5
    /\ last.index = 3
    /\ get_ptr_at_and_prev(Cur, 4).current = end
    /\ heap[get_ptr_at_and_prev(Cur, 4).prev].payload = last.value
    /\ get_ptr_at_and_prev(Cur, 4).decodes = 1

\* C24: clear() on any reachable list ends after exactly size successful
\* pop_front steps, with size 0, both anchors null and every node deallocated
\* (each once: nothing is freed twice); on an empty list it changes nothing;
\* afterwards the list is the new list, so a push, peek or get on it behaves
\* as on a new list.
C24_Clear ==
    [][ last'.op = "clear" =>
          /\ fault' = "none"
          /\ last'.steps = size
          /\ last'.steps = Cardinality(DOMAIN heap)
          /\ last'.steps = Len(iter(Cur).nodes)
          /\ size' = 0
          /\ start' = NULL
          /\ end' = NULL
          /\ DOMAIN heap' = {}
          /\ size = 0 => (start' = start /\ end' = end /\ heap' = heap)
          /\ CurNext = new
          /\ clear(CurNext) = CurNext
          /\ peek_front(CurNext) = peek_front(new)
          /\ peek_back(CurNext).ret = NONE
          /\ \A i \in Indexes : get(CurNext, i) = get(new, i)
          /\ \A new_node \in Addrs :
                LET L == push_back(CurNext, new_node, Tag(new_node)) IN
                /\ L = push_back(new, new_node, Tag(new_node))
                /\ push_front(CurNext, new_node, Tag(new_node)) =
                      push_front(new, new_node, Tag(new_node))
                /\ L.fault = "none"
                /\ iter(L).items = <<Tag(new_node)>>
                /\ peek_front(L).ret = Tag(new_node)
                /\ get(L, 0).ret = Tag(new_node)
      ]_vars

\* clear() has popped the nodes of a list of at least three elements
C24_Witness ==
    /\ last.op = "clear"
    /\ last.steps >= 3
    /\ ~dropped
    /\ size = 0
    /\ start = NULL
    /\ end = NULL
    /\ DOMAIN heap = {}

\* C23: stepping a shared or mutable cursor, to the end or part of the way
\* before it is dropped, never changes the list: size, both anchors, the
\* link field of every node and the set of live nodes are as when the
\* cursor was created, so a cursor created afterwards yields the whole
\* sequence again.
C23_BorrowLeavesList ==
    [][ /\ cursor.kind \in BorrowKinds =>
              /\ fault' = "none"
              /\ size' = size
              /\ start' = start
              /\ end' = end
              /\ DOMAIN heap' = DOMAIN heap
              /\ \A node \in DOMAIN heap : heap'[node].xor_ptr = heap[node].xor_ptr
              /\ heap' = heap
        /\ cursor'.kind \in BorrowKinds => CurNext = cursor'.origin
        /\ last'.op = "cursor_drop" =>
              /\ CurNext = cursor.origin
              /\ last'.steps <= size'
              /\ iter(CurNext).stop = "done"
              /\ iter(CurNext).nodes = iter(cursor.origin).nodes
              /\ Len(iter(CurNext).nodes) = size'
              /\ reverse_iter(CurNext).nodes = Rev(iter(cursor.origin).nodes)
              /\ \A kind \in BorrowKinds :
                    LET fresh == StartCursor(CurNext, kind) IN
                    /\ fresh.prev = NULL
                    /\ fresh.nodes = <<>>
                    /\ fresh.current =
                          IF size' = 0 THEN NULL
                          ELSE IF kind \in ForwardKinds
                          THEN iter(cursor.origin).nodes[1]
                          ELSE iter(cursor.origin).nodes[size']
      ]_vars

\* a cursor over four elements has been dropped after yielding two of them
C23_Witness ==
    /\ last.op = "cursor_drop"
    /\ last.steps = 2
    /\ size = 4
    /\ cursor = NoCursor
    /\ Len(iter(Cur).nodes) = 4

\* C25: each node a consuming cursor (forward or backward) yields is
\* deallocated by the next() that yields it, and when the cursor is dropped
\* after k < len() steps the drop deallocates the remaining len() - k nodes:
\* every node of the list is freed exactly once, none leaks and none is
\* freed twice.
C25_ConsumeAbandoned ==
    [][ /\ cursor'.kind \in ConsumeKinds =>
              LET all == iter(cursor'.origin).nodes
                  chain == IF cursor'.kind = "into_iter" THEN all ELSE Rev(all)
                  k == Len(cursor'.nodes)
              IN
              /\ fault' = "none"
              /\ cursor'.nodes = SubSeq(chain, 1, k)
              /\ Cardinality(SeqSet(cursor'.nodes)) = k
              /\ ~dropped' =>
                    /\ DOMAIN heap' = SeqSet(all) \ SeqSet(cursor'.nodes)
                    /\ size' = cursor'.origin.size - k
        /\ (cursor.kind \in ConsumeKinds /\ last'.op = "next") =>
              LET node == IF cursor.kind = "into_iter" THEN start ELSE end IN
              IF last'.ret = NONE
              THEN heap' = heap /\ size = 0
              ELSE /\ node \in DOMAIN heap
                   /\ DOMAIN heap' = DOMAIN heap \ {node}
                   /\ last'.ret = heap[node].payload
                   /\ cursor'.nodes = Append(cursor.nodes, node)
        /\ (cursor.kind \in ConsumeKinds /\ dropped') =>
              /\ last'.op = "drop"
              /\ fault' = "none"
              /\ cursor'.nodes = cursor.nodes
              /\ last'.steps = cursor.origin.size - Len(cursor.nodes)
              /\ last'.steps = Cardinality(DOMAIN heap)
              /\ DOMAIN heap = SeqSet(iter(cursor.origin).nodes) \ SeqSet(cursor.nodes)
              /\ DOMAIN heap' = {}
              /\ size' = 0 /\ start' = NULL /\ end' = NULL
      ]_vars

\* a backward consuming cursor over five elements has been dropped after
\* yielding two of them, and the three others were freed by the drop
C25_Witness ==
    /\ cursor.kind = "into_reverse_iter"
    /\ dropped
    /\ cursor.origin.size = 5
    /\ Len(cursor.nodes) = 2
    /\ cursor.nodes[1] = cursor.origin.end
    /\ last.op = "drop"
    /\ last.steps = 3
    /\ DOMAIN heap = {}

====
